---- MODULE Spec2Model ----
(***************************************************************************)
(* Query-clause compilation of cozo: parse_clauses / compile_clauses of     *)
(* src/src/preprocess/query.rs and sort_and_collect of                      *)
(* src/src/query/sort.rs, as state machines.                                *)
(*                                                                          *)
(* Keywords and JSON strings are sequences of one-character strings, so     *)
(* that starts_with and format! are computed, not assumed.                  *)
(***************************************************************************)
EXTENDS Integers, Sequences, FiniteSets, TLC

VARIABLES
    clauses,         \* compile_clauses: the Vec<Clause> argument
    vld,             \* compile_clauses / parse_clauses: the Validity argument
    c_pc,            \* compile_clauses: "idle" | "loop" | "returned" | "panic"
    c_i,             \* compile_clauses: index of the next clause of the for loop
    ret,             \* compile_clauses: the running relation
    seen_variables,  \* compile_clauses: variables already bound
    id_serial,       \* compile_clauses: counter of next_ignored_kw
    c_result,        \* compile_clauses: "none" | "Ok" | "Err" (the Result returned)
    payload,         \* parse_clauses: the JSON payload
    p_pc,            \* parse_clauses: "idle" | "iter" | "returned" | "panic"
    p_i,             \* parse_clauses: index of the next array element
    p_acc,           \* parse_clauses: clauses collected so far by try_collect
    p_result,        \* parse_clauses: [status, clauses] returned
    original,        \* sort_and_collect: rows of the store to sort, in scan order
    sorters,         \* sort_and_collect: <<(column, dir), ...>>
    s_pc,            \* sort_and_collect: "idle" | "scan" | "returned"
    s_idx,           \* sort_and_collect: enumerate() index of the next row
    s_ret,           \* sort_and_collect: the temp store being filled
    s_pass,          \* 1: first application, 2: applied again to its own result
    s_input,         \* rows given to the first application
    s_first          \* scan of the first application's result

compileVars == <<clauses, c_pc, c_i, ret, seen_variables, id_serial, c_result>>
parseVars == <<payload, p_pc, p_i, p_acc, p_result>>
sortVars == <<original, sorters, s_pc, s_idx, s_ret, s_pass, s_input, s_first>>
vars == <<vld, compileVars, parseVars, sortVars>>

\* ------------------------------------------------------------------ bounds
MaxClauses == 3
MaxPayload == 2
MaxRows == 3

\* ------------------------------------------------------------- characters
DigitChars == <<"0", "1", "2", "3", "4", "5", "6", "7", "8", "9">>

RECURSIVE ToDigits(_)
\* Display of an unsigned integer, as format!("{}", n) writes it.
ToDigits(n) ==
    IF n < 10 THEN <<DigitChars[n + 1]>>
    ELSE ToDigits(n \div 10) \o <<DigitChars[(n % 10) + 1]>>

\* s.starts_with(['?', '_'])
StartsWithSigil(s) == Len(s) > 0 /\ s[1] \in {"?", "_"}

\* Keyword::is_ignored_binding: the name is in the synthetic namespace.
is_ignored_binding(kw) == Len(kw) > 0 /\ kw[1] = "*"

\* A mutant of next_ignored_kw: only the last digit of the counter is written.
NextIgnoredKwLastDigit(serial) == <<"*">> \o <<DigitChars[(serial % 10) + 1]>>

\* next_ignored_kw: the name made from the current counter value.
next_ignored_kw(serial) == <<"*">> \o ToDigits(serial)

\* --------------------------------------------------------------- the data
Validities == {1, 2}

\* EntityId and the DataValue variants the clauses carry.
EntityId(n) == [tag |-> "EntityId", n |-> n, s |-> <<>>]
EnId(n) == [tag |-> "EnId", n |-> n, s |-> <<>>]
IntVal(n) == [tag |-> "Int", n |-> n, s |-> <<>>]
StrVal(s) == [tag |-> "Str", n |-> 0, s |-> s]

AgeName == <<"a", "g", "e">>
FriendName == <<"f", "r", "i", "e", "n", "d">>
NameName == <<"n", "a", "m", "e">>

\* Attribute: its keyword, its value type and whether it is a unique index.
AttrAge == [name |-> AgeName, val_type |-> "Int", unique |-> FALSE]
AttrFriend == [name |-> FriendName, val_type |-> "Ref", unique |-> FALSE]
AttrName == [name |-> NameName, val_type |-> "Str", unique |-> TRUE]
Catalog == {AttrAge, AttrFriend, AttrName}

Bob == <<"b", "o", "b">>
VarLike == <<"?", "v">>
ReservedWord == <<":", "r">>

\* The stored facts <<attribute name, entity, value>> valid at each validity.
FactsAt(v) ==
    IF v = 1
    THEN << <<AgeName, EnId(1), IntVal(7)>>, <<FriendName, EnId(1), EnId(2)>>,
            <<FriendName, EnId(2), EnId(1)>>, <<NameName, EnId(1), StrVal(Bob)>> >>
    ELSE << <<AgeName, EnId(1), IntVal(8)>>, <<FriendName, EnId(1), EnId(2)>>,
            <<NameName, EnId(1), StrVal(Bob)>>, <<NameName, EnId(2), StrVal(VarLike)>> >>

\* ------------------------------------------------------------ the clauses
Variable(kw) == [mv |-> "Variable", kw |-> kw]
Const(v) == [mv |-> "Const", val |-> v]
AttrTriple(attr, entity, value) == [attr |-> attr, entity |-> entity, value |-> value]

UserVars == {<<"?", "x">>, <<"_", "y">>}

\* The constant a clause of the attribute may carry in its value position.
ConstOf(attr) == IF attr.val_type = "Int" THEN IntVal(7) ELSE EnId(2)

ClauseSet ==
    { AttrTriple(a, e, v) :
        a \in {AttrAge, AttrFriend},
        e \in {Const(EntityId(1))} \cup {Variable(k) : k \in UserVars},
        v \in {Const(IntVal(7)), Const(EnId(2))} \cup {Variable(k) : k \in UserVars} }

ClauseAlphabet == {c \in ClauseSet : c.value.mv = "Const" => c.value.val = ConstOf(c.attr)}

ClauseLists == UNION {[1..n -> ClauseAlphabet] : n \in 0..MaxClauses}

\* ---------------------------------------------------------- the relations
\* Relation::unit
UnitRel == [kind |-> "Unit"]
\* Relation::is_unit
is_unit(r) == r.kind = "Unit"

FixedRel(bindings, data) ==
    [kind |-> "Fixed", bindings |-> bindings, data |-> data, to_eliminate |-> {}]

\* A mutant of the Triple constructor: the validity argument is not used.
TripleRelFixedVld(attr, v, bindings) ==
    [kind |-> "Triple", attr |-> attr, vld |-> 1, bindings |-> bindings]

TripleRel(attr, v, bindings) ==
    [kind |-> "Triple", attr |-> attr, vld |-> v, bindings |-> bindings]

JoinRel(left, right, left_keys, right_keys) ==
    [kind |-> "Join", left |-> left, right |-> right,
     left_keys |-> left_keys, right_keys |-> right_keys, to_eliminate |-> {}]

FilterSeq(s, drop) ==
    LET Keep(b) == b \notin drop
    IN SelectSeq(s, Keep)

RECURSIVE bindings(_)
\* Relation::bindings: the schema a node shows to its parent.
bindings(r) ==
    CASE r.kind = "Unit" -> <<>>
      [] r.kind = "Fixed" -> FilterSeq(r.bindings, r.to_eliminate)
      [] r.kind = "Triple" -> r.bindings
      [] r.kind = "Join" ->
            FilterSeq(bindings(r.left) \o bindings(r.right), r.to_eliminate)

SeqToSet(s) == {s[k] : k \in 1..Len(s)}

\* Relation::eliminate_temp_vars: a Join drops every synthetic binding from
\* its schema; a bare Unit, Fixed or Triple node has no elimination point.
eliminate_temp_vars(r) ==
    IF r.kind = "Join"
    THEN [r EXCEPT !.to_eliminate =
             {b \in SeqToSet(bindings(r.left) \o bindings(r.right)) :
                 is_ignored_binding(b)}]
    ELSE r

\* ------------------------------------------------------- compile_clauses
\* The first-occurrence-or-repeat rule applied to one variable position:
\* the binding the Triple scan gets, the join-key pair added, the new set
\* of seen variables and the new counter.
ResolveVarNeverFresh(kw, seen, serial) ==
    [bind |-> kw, lk |-> <<>>, rk |-> <<>>, seen |-> seen \cup {kw}, serial |-> serial]

ResolveVarAlwaysFresh(kw, seen, serial) ==
    [bind |-> next_ignored_kw(serial), lk |-> <<kw>>,
     rk |-> <<next_ignored_kw(serial)>>, seen |-> seen, serial |-> serial + 1]

ResolveVar(kw, seen, serial) ==
    IF kw \in seen
    THEN [bind |-> next_ignored_kw(serial), lk |-> <<kw>>,
          rk |-> <<next_ignored_kw(serial)>>, seen |-> seen, serial |-> serial + 1]
    ELSE [bind |-> kw, lk |-> <<>>, rk |-> <<>>,
          seen |-> seen \cup {kw}, serial |-> serial]

\* The constant relation replaces a Unit ret, or is cross-joined into it.
AttachConst(r, const_rel) ==
    IF is_unit(r) THEN const_rel ELSE JoinRel(r, const_rel, <<>>, <<>>)

\* (Const(eid), Variable(v_kw))
CompileConstVar(attr, eid, v_kw, v, r, seen, serial) ==
    LET temp_join_key_left == next_ignored_kw(serial)
        temp_join_key_right == next_ignored_kw(serial + 1)
        const_rel == FixedRel(<<temp_join_key_left>>, << <<EnId(eid.n)>> >>)
        r1 == AttachConst(r, const_rel)
        rv == ResolveVar(v_kw, seen, serial + 2)
        right == TripleRel(attr, v, <<temp_join_key_right, rv.bind>>)
    IN [ret |-> JoinRel(r1, right, <<temp_join_key_left>> \o rv.lk,
                        <<temp_join_key_right>> \o rv.rk),
        seen |-> rv.seen, serial |-> rv.serial]

\* A mutant of the (Variable, Const) case: the two key lists of the Join
\* attaching the scan are exchanged.
CompileVarConstKeysSwapped(attr, e_kw, val, v, r, seen, serial) ==
    LET temp_join_key_left == next_ignored_kw(serial)
        temp_join_key_right == next_ignored_kw(serial + 1)
        const_rel == FixedRel(<<temp_join_key_left>>, << <<val>> >>)
        r1 == AttachConst(r, const_rel)
        rv == ResolveVar(e_kw, seen, serial + 2)
        right == TripleRel(attr, v, <<rv.bind, temp_join_key_right>>)
    IN [ret |-> JoinRel(r1, right, <<temp_join_key_right>> \o rv.rk,
                        <<temp_join_key_left>> \o rv.lk),
        seen |-> rv.seen, serial |-> rv.serial]

\* (Variable(e_kw), Const(val))
CompileVarConst(attr, e_kw, val, v, r, seen, serial) ==
    LET temp_join_key_left == next_ignored_kw(serial)
        temp_join_key_right == next_ignored_kw(serial + 1)
        const_rel == FixedRel(<<temp_join_key_left>>, << <<val>> >>)
        r1 == AttachConst(r, const_rel)
        rv == ResolveVar(e_kw, seen, serial + 2)
        right == TripleRel(attr, v, <<rv.bind, temp_join_key_right>>)
    IN [ret |-> JoinRel(r1, right, <<temp_join_key_left>> \o rv.lk,
                        <<temp_join_key_right>> \o rv.rk),
        seen |-> rv.seen, serial |-> rv.serial]

\* (Variable(e_kw), Variable(v_kw)) with e_kw # v_kw
CompileVarVar(attr, e_kw, v_kw, v, r, seen, serial) ==
    LET re == ResolveVar(e_kw, seen, serial)
        rv == ResolveVar(v_kw, re.seen, re.serial)
        right == TripleRel(attr, v, <<re.bind, rv.bind>>)
    IN [ret |-> IF is_unit(r) THEN right
                ELSE JoinRel(r, right, re.lk \o rv.lk, re.rk \o rv.rk),
        seen |-> rv.seen, serial |-> rv.serial]

\* A mutant of the (Const, Const) case: the join is on the entity key alone.
CompileConstConstOneKey(attr, eid, val, v, r, seen, serial) ==
    LET left_var_1 == next_ignored_kw(serial)
        left_var_2 == next_ignored_kw(serial + 1)
        const_rel == FixedRel(<<left_var_1, left_var_2>>, << <<EnId(eid.n), val>> >>)
        r1 == AttachConst(r, const_rel)
        right_var_1 == next_ignored_kw(serial + 2)
        right_var_2 == next_ignored_kw(serial + 3)
        right == TripleRel(attr, v, <<right_var_1, right_var_2>>)
    IN [ret |-> JoinRel(r1, right, <<left_var_1>>, <<right_var_1>>),
        seen |-> seen, serial |-> serial + 4]

\* (Const(eid), Const(val))
CompileConstConst(attr, eid, val, v, r, seen, serial) ==
    LET left_var_1 == next_ignored_kw(serial)
        left_var_2 == next_ignored_kw(serial + 1)
        const_rel == FixedRel(<<left_var_1, left_var_2>>, << <<EnId(eid.n), val>> >>)
        r1 == AttachConst(r, const_rel)
        right_var_1 == next_ignored_kw(serial + 2)
        right_var_2 == next_ignored_kw(serial + 3)
        right == TripleRel(attr, v, <<right_var_1, right_var_2>>)
    IN [ret |-> JoinRel(r1, right, <<left_var_1, left_var_2>>,
                        <<right_var_1, right_var_2>>),
        seen |-> seen, serial |-> serial + 4]

HasIgnored(r) == \E k \in 1..Len(bindings(r)) : is_ignored_binding(bindings(r)[k])

\* A mutant of the cleanup: the tree is wrapped but no cleanup pass is run.
FinishRelNoCleanup(r) ==
    IF HasIgnored(r) THEN JoinRel(r, UnitRel, <<>>, <<>>) ELSE r

\* The cleanup after the loop: one pass, and when a flagged column is still
\* visible a wrap in a Join against Unit and a second pass.
FinishRel(r) ==
    LET r1 == eliminate_temp_vars(r)
    IN IF HasIgnored(r1)
       THEN eliminate_temp_vars(JoinRel(r1, UnitRel, <<>>, <<>>))
       ELSE r1

CompileIdle ==
    /\ clauses = <<>> /\ c_pc = "idle" /\ c_i = 1 /\ ret = UnitRel
    /\ seen_variables = {} /\ id_serial = 0 /\ c_result = "none"

\* The state on entry of the for loop, for any clause list and validity.
CompileInit ==
    /\ clauses \in ClauseLists
    /\ c_pc = "loop" /\ c_i = 1 /\ ret = UnitRel
    /\ seen_variables = {} /\ id_serial = 0 /\ c_result = "none"

AtClause == c_pc = "loop" /\ c_i <= Len(clauses)

Advance(st) ==
    /\ ret' = st.ret /\ seen_variables' = st.seen /\ id_serial' = st.serial
    /\ c_i' = c_i + 1
    /\ UNCHANGED <<clauses, c_pc, c_result, vld, parseVars, sortVars>>

StepConstVar ==
    /\ AtClause
    /\ LET c == clauses[c_i] IN
        /\ c.entity.mv = "Const" /\ c.value.mv = "Variable"
        /\ Advance(CompileConstVar(c.attr, c.entity.val, c.value.kw, vld,
                                   ret, seen_variables, id_serial))

StepVarConst ==
    /\ AtClause
    /\ LET c == clauses[c_i] IN
        /\ c.entity.mv = "Variable" /\ c.value.mv = "Const"
        /\ Advance(CompileVarConst(c.attr, c.entity.kw, c.value.val, vld,
                                   ret, seen_variables, id_serial))

\* unimplemented!() unwinds out of compile_clauses: nothing is returned.
StepVarVar ==
    /\ AtClause
    /\ LET c == clauses[c_i] IN
        /\ c.entity.mv = "Variable" /\ c.value.mv = "Variable"
        /\ IF c.entity.kw = c.value.kw
           THEN /\ c_pc' = "panic"
                /\ UNCHANGED <<clauses, c_i, ret, seen_variables, id_serial,
                               c_result, vld, parseVars, sortVars>>
           ELSE Advance(CompileVarVar(c.attr, c.entity.kw, c.value.kw, vld,
                                      ret, seen_variables, id_serial))

StepConstConst ==
    /\ AtClause
    /\ LET c == clauses[c_i] IN
        /\ c.entity.mv = "Const" /\ c.value.mv = "Const"
        /\ Advance(CompileConstConst(c.attr, c.entity.val, c.value.val, vld,
                                     ret, seen_variables, id_serial))

CompileReturn ==
    /\ c_pc = "loop" /\ c_i > Len(clauses)
    /\ ret' = FinishRel(ret)
    /\ c_pc' = "returned" /\ c_result' = "Ok"
    /\ UNCHANGED <<clauses, c_i, seen_variables, id_serial, vld, parseVars, sortVars>>

ParseIdle ==
    /\ payload = <<>> /\ p_pc = "idle" /\ p_i = 1 /\ p_acc = <<>>
    /\ p_result = [status |-> "none", clauses |-> <<>>]

SortIdle ==
    /\ original = <<>> /\ sorters = <<>> /\ s_pc = "idle" /\ s_idx = 0
    /\ s_ret = <<>> /\ s_pass = 1 /\ s_input = <<>> /\ s_first = <<>>

Init == vld \in Validities /\ CompileInit /\ ParseIdle /\ SortIdle

Next ==
    \/ StepConstVar
    \/ StepVarConst
    \/ StepVarVar
    \/ StepConstConst
    \/ CompileReturn

Spec == Init /\ [][Next]_vars

\* ------------------------------------------------ evaluation of a relation
IndexOf(s, x) == CHOOSE k \in 1..Len(s) : s[k] = x

\* A row over the columns `full`, without the columns in `elim`.
Project(row, full, elim) ==
    LET Keep(k) == full[k] \notin elim
        idxs == SelectSeq([k \in 1..Len(full) |-> k], Keep)
    IN [j \in 1..Len(idxs) |-> row[idxs[j]]]

\* The indexed scan of one attribute at one validity: rows <<entity, value>>.
TripleScan(attr, v) ==
    LET IsAttr(f) == f[1] = attr.name
        fs == SelectSeq(FactsAt(v), IsAttr)
    IN [k \in 1..Len(fs) |-> <<fs[k][2], fs[k][3]>>]

RECURSIVE Eval(_)
\* The rows a relation yields, as a sequence (duplicates are kept).
Eval(r) ==
    CASE r.kind = "Unit" -> << <<>> >>
      [] r.kind = "Fixed" ->
            [k \in 1..Len(r.data) |-> Project(r.data[k], r.bindings, r.to_eliminate)]
      [] r.kind = "Triple" -> TripleScan(r.attr, r.vld)
      [] r.kind = "Join" ->
            LET L == Eval(r.left)
                R == Eval(r.right)
                lb == bindings(r.left)
                rb == bindings(r.right)
                n == Len(L)
                m == Len(R)
                pairs == [k \in 1..(n * m) |-> <<((k - 1) \div m) + 1, ((k - 1) % m) + 1>>]
                Match(p) ==
                    \A q \in 1..Len(r.left_keys) :
                        L[p[1]][IndexOf(lb, r.left_keys[q])]
                            = R[p[2]][IndexOf(rb, r.right_keys[q])]
                hit == SelectSeq(pairs, Match)
            IN [k \in 1..Len(hit) |->
                    Project(L[hit[k][1]] \o R[hit[k][2]], lb \o rb, r.to_eliminate)]

FactExists(attr, eid, val, v) ==
    \E k \in 1..Len(FactsAt(v)) : FactsAt(v)[k] = <<attr.name, EnId(eid.n), val>>

\* ------------------------------------------------------ views of the tree
RECURSIVE Leaves(_)
\* The Fixed, Triple and Unit nodes of a tree, left to right.
Leaves(r) == IF r.kind = "Join" THEN Leaves(r.left) \o Leaves(r.right) ELSE <<r>>

RECURSIVE Joins(_)
\* The Join nodes of a tree.
Joins(r) == IF r.kind = "Join" THEN {r} \cup Joins(r.left) \cup Joins(r.right) ELSE {}

IsTriple(r) == r.kind = "Triple"
Triples(r) == SelectSeq(Leaves(r), IsTriple)

RECURSIVE Flatten(_)
Flatten(ss) == IF ss = <<>> THEN <<>> ELSE Head(ss) \o Flatten(Tail(ss))

\* Every binding name introduced by a Fixed or Triple node, with repeats.
LeafBindings(r) ==
    LET ls == Leaves(r)
    IN Flatten([k \in 1..Len(ls) |-> IF ls[k].kind = "Unit" THEN <<>> ELSE ls[k].bindings])

Count(s, x) == Cardinality({k \in 1..Len(s) : s[k] = x})
NoRepeat(s) == \A j, k \in 1..Len(s) : s[j] = s[k] => j = k

\* The variable keywords of a clause, and of the first n clauses of a list.
VarsOfClause(c) ==
    (IF c.entity.mv = "Variable" THEN {c.entity.kw} ELSE {})
        \cup (IF c.value.mv = "Variable" THEN {c.value.kw} ELSE {})
VarsOfPrefix(cs, n) == UNION {VarsOfClause(cs[k]) : k \in 1..n}

SelfReferential(c) ==
    c.entity.mv = "Variable" /\ c.value.mv = "Variable" /\ c.entity.kw = c.value.kw

Returned == c_pc = "returned" /\ c_result = "Ok"

\* ------------------------------------------------------------- the JSON
JStr(s) == [t |-> "str", s |-> s, n |-> 0, keys |-> <<>>, items |-> <<>>]
JNum(n) == [t |-> "num", s |-> <<>>, n |-> n, keys |-> <<>>, items |-> <<>>]
JArr(items) == [t |-> "arr", s |-> <<>>, n |-> 0, keys |-> <<>>, items |-> items]
\* An object: its keys and, position by position, their values.
JObj(keys, items) == [t |-> "obj", s |-> <<>>, n |-> 0, keys |-> keys, items |-> items]
JNull == [t |-> "null", s |-> <<>>, n |-> 0, keys |-> <<>>, items |-> <<>>]

ConstKey == <<"c", "o", "n", "s", "t">>
NopeName == <<"n", "o", "p", "e">>
Zed == <<"z", "e", "d">>

NoVal == [tag |-> "None", n |-> 0, s |-> <<>>]
Ok(v) == [st |-> "Ok", val |-> v, err |-> "none"]
Err(e) == [st |-> "Err", val |-> NoVal, err |-> e]
\* unimplemented!() and todo!(): the call unwinds, no Result is made.
Panic == [st |-> "panic", val |-> NoVal, err |-> "none"]

\* Keyword::is_reserved
is_reserved(kw) == kw \in {ReservedWord}

\* attr_by_kw: the catalog entry of the name, if any.
attr_by_kw(kw) ==
    IF \E a \in Catalog : a.name = kw
    THEN Ok(CHOOSE a \in Catalog : a.name = kw)
    ELSE Err("AttrNotFound")

\* val_type.coerce_value: the JSON value as a value of the declared type.
coerce_value(val_type, j) ==
    CASE val_type = "Int" /\ j.t = "num" -> Ok(IntVal(j.n))
      [] val_type = "Str" /\ j.t = "str" -> Ok(StrVal(j.s))
      [] val_type = "Ref" /\ j.t = "num" /\ j.n >= 0 -> Ok(EnId(j.n))
      [] OTHER -> Err("coercion")

\* eid_by_unique_av: the entity holding the value under a unique attribute.
eid_by_unique_av(attr, value, v) ==
    LET hits == {k \in 1..Len(FactsAt(v)) :
                    FactsAt(v)[k][1] = attr.name /\ FactsAt(v)[k][3] = value}
    IN IF hits = {} THEN Err("none")
       ELSE Ok(EntityId(FactsAt(v)[CHOOSE k \in hits : TRUE][2].n))

\* ------------------------------------------------------------ parse_clause
parse_eid_from_map(m, v) ==
    IF Len(m.keys) # 1 THEN Err("expect object with exactly one field")
    ELSE LET a == attr_by_kw(m.keys[1]) IN
         IF a.st # "Ok" THEN Err("AttrNotFound")
         ELSE IF ~a.val.unique THEN Err("attribute is not a unique index")
         ELSE LET value == coerce_value(a.val.val_type, m.items[1]) IN
              IF value.st # "Ok" THEN value
              ELSE LET eid == eid_by_unique_av(a.val, value.val, v) IN
                   IF eid.st = "Ok" THEN eid ELSE Ok(EntityId(0))

\* A mutant of parse_value_from_map: the payload of "const" goes through the
\* variable and reserved-word detection again.
parse_value_from_map_Detect(m, attr) ==
    IF Len(m.keys) # 1 THEN Err("expect object with exactly one field")
    ELSE IF m.keys[1] # ConstKey
         THEN Err("expect object with exactly one field named 'const'")
         ELSE IF m.items[1].t = "str"
                  /\ (StartsWithSigil(m.items[1].s) \/ is_reserved(m.items[1].s))
              THEN Err("reserved string values must be quoted")
              ELSE coerce_value(attr.val_type, m.items[1])

parse_value_from_map(m, attr) ==
    IF Len(m.keys) # 1 THEN Err("expect object with exactly one field")
    ELSE IF m.keys[1] # ConstKey
         THEN Err("expect object with exactly one field named 'const'")
         ELSE coerce_value(attr.val_type, m.items[1])

MapConst(r) == IF r.st = "Ok" THEN Ok(Const(r.val)) ELSE r

parse_triple_clause_value(value_rep, attr, v) ==
    IF value_rep.t = "str" /\ StartsWithSigil(value_rep.s)
    THEN Ok(Variable(value_rep.s))
    ELSE IF value_rep.t = "str" /\ is_reserved(value_rep.s)
    THEN Err("reserved string values must be quoted")
    ELSE IF value_rep.t = "obj"
    THEN IF attr.val_type = "Ref"
         THEN LET eid == parse_eid_from_map(value_rep, v) IN
              IF eid.st = "Ok" THEN Ok(Const(EnId(eid.val.n))) ELSE eid
         ELSE MapConst(parse_value_from_map(value_rep, attr))
    ELSE MapConst(coerce_value(attr.val_type, value_rep))

parse_triple_clause_entity(entity_rep, v) ==
    IF entity_rep.t = "str" /\ StartsWithSigil(entity_rep.s)
    THEN Ok(Variable(entity_rep.s))
    ELSE IF entity_rep.t = "str" /\ is_reserved(entity_rep.s)
    THEN Err("reserved string values must be quoted")
    ELSE IF entity_rep.t = "num" /\ entity_rep.n >= 0
    THEN Ok(Const(EntityId(entity_rep.n)))
    ELSE IF entity_rep.t = "obj"
    THEN MapConst(parse_eid_from_map(entity_rep, v))
    ELSE Panic

parse_triple_clause_attr(attr_rep) ==
    IF attr_rep.t = "str" THEN attr_by_kw(attr_rep.s)
    ELSE Err("expect attribute keyword")

parse_triple_clause(entity_rep, attr_rep, value_rep, v) ==
    LET entity == parse_triple_clause_entity(entity_rep, v) IN
    IF entity.st # "Ok" THEN entity
    ELSE LET attr == parse_triple_clause_attr(attr_rep) IN
         IF attr.st # "Ok" THEN attr
         ELSE LET value == parse_triple_clause_value(value_rep, attr.val, v) IN
              IF value.st # "Ok" THEN value
              ELSE Ok(AttrTriple(attr.val, entity.val, value.val))

parse_clause(el, v) ==
    IF el.t = "arr" /\ Len(el.items) = 3
    THEN parse_triple_clause(el.items[1], el.items[2], el.items[3], v)
    ELSE Panic

\* ----------------------------------------------------------- parse_clauses
EntityReps == {JStr(<<"?", "x">>), JNum(1)}
AttrReps == {JStr(AgeName), JStr(FriendName), JStr(NameName)}
ValueReps ==
    {JStr(<<"_", "y">>), JObj(<<ConstKey>>, <<JNum(7)>>),
     JObj(<<ConstKey>>, <<JStr(VarLike)>>), JObj(<<ConstKey>>, <<JStr(ReservedWord)>>)}

\* Clause elements outside the product above: the other accepted forms and
\* one element for each way a clause is refused.
OtherElements ==
    {JArr(<<JObj(<<NameName>>, <<JStr(Bob)>>), JStr(AgeName), JNum(7)>>),
     JArr(<<JObj(<<NameName>>, <<JStr(Zed)>>), JStr(NameName), JStr(Bob)>>),
     JArr(<<JObj(<<AgeName>>, <<JNum(7)>>), JStr(AgeName), JNum(7)>>),
     JArr(<<JNum(1), JStr(FriendName), JObj(<<NameName>>, <<JStr(Bob)>>)>>),
     JArr(<<JNum(1), JStr(FriendName), JNum(2)>>),
     JArr(<<JNum(1), JStr(AgeName), JObj(<<NameName>>, <<JStr(Bob)>>)>>),
     JArr(<<JNum(1), JStr(AgeName), JObj(<<>>, <<>>)>>),
     JArr(<<JNum(1), JStr(AgeName), JStr(Bob)>>),
     JArr(<<JNum(1), JStr(AgeName), JStr(ReservedWord)>>),
     JArr(<<JStr(ReservedWord), JStr(AgeName), JNum(7)>>),
     JArr(<<JStr(Bob), JStr(AgeName), JNum(7)>>),
     JArr(<<JNum(1), JStr(NopeName), JNum(7)>>),
     JArr(<<JNum(1), JNum(3), JNum(7)>>),
     JArr(<<JNum(1), JStr(AgeName)>>),
     JNum(5)}

Elements ==
    {JArr(<<e, a, v>>) : e \in EntityReps, a \in AttrReps, v \in ValueReps}
        \cup OtherElements

Payloads ==
    {JNull} \cup {JArr(items) : items \in UNION {[1..n -> Elements] : n \in 0..MaxPayload}}

ParseInit ==
    /\ payload \in Payloads
    /\ p_pc = "start" /\ p_i = 1 /\ p_acc = <<>>
    /\ p_result = [status |-> "none", clauses |-> <<>>]

ParseUnchanged == UNCHANGED <<payload, vld, compileVars, sortVars>>

\* payload.as_array().ok_or_else(..)?
ParseArray ==
    /\ p_pc = "start"
    /\ IF payload.t = "arr"
       THEN p_pc' = "iter" /\ UNCHANGED p_result
       ELSE p_pc' = "returned" /\ p_result' = [status |-> "Err", clauses |-> <<>>]
    /\ UNCHANGED <<p_i, p_acc>>
    /\ ParseUnchanged

\* One element through map(parse_clause) and try_collect.
ParseElement ==
    /\ p_pc = "iter" /\ p_i <= Len(payload.items)
    /\ LET r == parse_clause(payload.items[p_i], vld) IN
        CASE r.st = "Ok" ->
                /\ p_acc' = Append(p_acc, r.val) /\ p_i' = p_i + 1
                /\ UNCHANGED <<p_pc, p_result>>
          [] r.st = "Err" ->
                /\ p_pc' = "returned"
                /\ p_result' = [status |-> "Err", clauses |-> <<>>]
                /\ UNCHANGED <<p_i, p_acc>>
          [] OTHER ->
                /\ p_pc' = "panic"
                /\ UNCHANGED <<p_i, p_acc, p_result>>
    /\ ParseUnchanged

\* The iterator is exhausted: Ok(the collected clauses).
ParseCollect ==
    /\ p_pc = "iter" /\ p_i > Len(payload.items)
    /\ p_pc' = "returned" /\ p_result' = [status |-> "Ok", clauses |-> p_acc]
    /\ UNCHANGED <<p_i, p_acc>>
    /\ ParseUnchanged

ParseNext == ParseArray \/ ParseElement \/ ParseCollect

InitParse == vld \in Validities /\ CompileIdle /\ ParseInit /\ SortIdle

SpecParse == InitParse /\ [][ParseNext]_vars

ConstForm(el) ==
    /\ el.t = "arr" /\ Len(el.items) = 3
    /\ el.items[3].t = "obj" /\ el.items[3].keys = <<ConstKey>>
    /\ parse_triple_clause_entity(el.items[1], vld).st = "Ok"
    /\ parse_triple_clause_attr(el.items[2]).st = "Ok"

AttrOfElement(el) == parse_triple_clause_attr(el.items[2]).val
Coerced(el) == coerce_value(AttrOfElement(el).val_type, el.items[3].items[1])
NonRef(el) == AttrOfElement(el).val_type # "Ref"

\* The element parse_clauses stopped at with an error or a panic, if any.
StoppedAt(k) ==
    /\ payload.t = "arr" /\ k = p_i /\ k <= Len(payload.items)
    /\ \/ p_pc = "panic"
       \/ p_pc = "returned" /\ p_result.status = "Err"

\* C7 as stated: {"const": inner} in the value position is the constant
\* inner coerced to the clause attribute's type, whatever that type is.
C7_ConstObjectIsLiteral ==
    /\ \A k \in 1..Len(p_acc) :
         (ConstForm(payload.items[k]) /\ Coerced(payload.items[k]).st = "Ok")
            => p_acc[k].value = Const(Coerced(payload.items[k]).val)
    /\ \A k \in 1..Len(payload.items) :
         StoppedAt(k) =>
            ~(ConstForm(payload.items[k]) /\ Coerced(payload.items[k]).st = "Ok")

\* C7 as amended: for an attribute whose value type is not a reference type,
\* {"const": inner} in the value position is the constant inner coerced to
\* the attribute's type, also when inner looks like a variable or is a
\* reserved word; the clause is refused only when the coercion fails.
C7_ConstObjectIsLiteralNonRef ==
    /\ \A k \in 1..Len(p_acc) :
         (ConstForm(payload.items[k]) /\ NonRef(payload.items[k])) =>
            /\ Coerced(payload.items[k]).st = "Ok"
            /\ p_acc[k].value = Const(Coerced(payload.items[k]).val)
    /\ \A k \in 1..Len(payload.items) :
         (StoppedAt(k) /\ ConstForm(payload.items[k]) /\ NonRef(payload.items[k])) =>
            /\ p_pc = "returned"
            /\ Coerced(payload.items[k]).st = "Err"

\* Witness of C7: a returned list with a constant made of a variable-like
\* string and one made of a reserved word.
C7_Witness ==
    /\ p_pc = "returned" /\ p_result.status = "Ok"
    /\ \E k \in 1..Len(p_result.clauses) :
         /\ ConstForm(payload.items[k])
         /\ p_result.clauses[k].value = Const(StrVal(VarLike))
    /\ \E k \in 1..Len(p_result.clauses) :
         /\ ConstForm(payload.items[k])
         /\ p_result.clauses[k].value = Const(StrVal(ReservedWord))

\* C8: parse_clauses ends with the full clause list or with an error value,
\* and nothing else, a clause that is not a 3-element group included.
C8_ParseAllOrError ==
    /\ p_pc # "panic"
    /\ p_pc = "returned" =>
         \/ p_result.status = "Ok" /\ Len(p_result.clauses) = Len(payload.items)
         \/ p_result.status = "Err" /\ p_result.clauses = <<>>

\* -------------------------------------------------------- sort_and_collect
head == <<"a", "b", "c">>

Rev(v) == [tag |-> "Rev", inner |-> v]

\* Ord of DataValue on the variants a sort key holds: integers by value, a
\* reversed value by the inverse order of what it wraps.
CmpPlain(a, b) == IF a.n < b.n THEN -1 ELSE IF a.n > b.n THEN 1 ELSE 0
CmpVal(a, b) ==
    IF a.tag = "Rev" /\ b.tag = "Rev" THEN CmpPlain(b.inner, a.inner) ELSE CmpPlain(a, b)

RECURSIVE CmpTuple(_, _)
\* Ord of Tuple: position by position, a proper prefix first.
CmpTuple(x, y) ==
    IF x = <<>> THEN (IF y = <<>> THEN 0 ELSE -1)
    ELSE IF y = <<>> THEN 1
    ELSE IF CmpVal(Head(x), Head(y)) # 0 THEN CmpVal(Head(x), Head(y))
    ELSE CmpTuple(Tail(x), Tail(y))

\* DerivedRelStore::put_kv: the store is kept in key order; a key already
\* there has its value replaced.
put_kv(store, key, val) ==
    LET Below(e) == CmpTuple(e.key, key) < 0
        Above(e) == CmpTuple(e.key, key) > 0
    IN SelectSeq(store, Below) \o <<[key |-> key, val |-> val]>> \o SelectSeq(store, Above)

\* DerivedRelStore::scan_all: the stored rows in key order.
scan_all(store) == [k \in 1..Len(store) |-> store[k].val]

\* head_indices[k]: the position of the column in head.
head_indices(k) == CHOOSE i \in 1..Len(head) : head[i] = k /\ \A j \in 1..Len(head) : head[j] = k => j <= i

idx_sorters(ss) == [q \in 1..Len(ss) |-> <<head_indices(ss[q][1]), ss[q][2]>>]

\* A mutant of the sort key: the direction of a sorter is not looked at.
SortKeyNoRev(tuple, ss, idx) ==
    [q \in 1..Len(ss) |-> tuple[idx_sorters(ss)[q][1]]] \o <<IntVal(idx)>>

\* The key a row is stored under: its sort columns, a descending one
\* reversed, then its position in the scan.
SortKey(tuple, ss, idx) ==
    [q \in 1..Len(ss) |->
        IF idx_sorters(ss)[q][2] = "Dsc"
        THEN Rev(tuple[idx_sorters(ss)[q][1]])
        ELSE tuple[idx_sorters(ss)[q][1]]] \o <<IntVal(idx)>>

Cells == {IntVal(0), IntVal(1)}
Rows == [1..Len(head) -> Cells]
SorterChoices ==
    { << <<"a", "Asc">>, <<"b", "Dsc">> >>,
      << <<"b", "Asc">>, <<"a", "Dsc">> >>,
      << <<"c", "Asc">>, <<"a", "Dsc">> >> }

SortInit ==
    /\ original \in UNION {[1..n -> Rows] : n \in 0..MaxRows}
    /\ sorters \in SorterChoices
    /\ s_pc = "scan" /\ s_idx = 0 /\ s_ret = <<>> /\ s_pass = 1
    /\ s_input = original /\ s_first = <<>>

SortUnchanged == UNCHANGED <<vld, compileVars, parseVars>>

\* One row of original.scan_all().enumerate() into the temp store.
SortPut ==
    /\ s_pc = "scan" /\ s_idx < Len(original)
    /\ s_ret' = put_kv(s_ret, SortKey(original[s_idx + 1], sorters, s_idx),
                       original[s_idx + 1])
    /\ s_idx' = s_idx + 1
    /\ UNCHANGED <<original, sorters, s_pc, s_pass, s_input, s_first>>
    /\ SortUnchanged

\* The scan is exhausted: Ok(ret).
SortReturn ==
    /\ s_pc = "scan" /\ s_idx = Len(original)
    /\ s_pc' = "returned"
    /\ UNCHANGED <<original, sorters, s_idx, s_ret, s_pass, s_input, s_first>>
    /\ SortUnchanged

\* sort_and_collect called on its own result, with the same sorters.
SortAgain ==
    /\ s_pc = "returned" /\ s_pass = 1
    /\ original' = scan_all(s_ret) /\ s_first' = scan_all(s_ret)
    /\ s_ret' = <<>> /\ s_idx' = 0 /\ s_pass' = 2 /\ s_pc' = "scan"
    /\ UNCHANGED <<sorters, s_input>>
    /\ SortUnchanged

SortNext == SortPut \/ SortReturn \/ SortAgain

InitSort == vld \in {1} /\ CompileIdle /\ ParseIdle /\ SortInit

SpecSort == InitSort /\ [][SortNext]_vars

Col(k) == CHOOSE i \in 1..Len(head) : head[i] = k

\* Row r1, scanned at position p1, goes before row r2, scanned at p2, under
\* (first sorter ascending, second descending, scan position).
GoesBefore(r1, p1, r2, p2) ==
    LET k1 == Col(sorters[1][1])
        k2 == Col(sorters[2][1])
    IN \/ r1[k1].n < r2[k1].n
       \/ /\ r1[k1].n = r2[k1].n
          /\ \/ r1[k2].n > r2[k2].n
             \/ r1[k2].n = r2[k2].n /\ p1 < p2

\* C9: the scan of the result holds every row of the input once, ordered by
\* (key1 ascending, key2 descending, scan position); a second application
\* with the same sorters gives the same row order.
C9_SortedStableIdempotent ==
    s_pc = "returned" =>
        LET out == scan_all(s_ret)
            N == Len(original)
        IN /\ Len(out) = N
           /\ \E perm \in Permutations(1..N) :
                /\ \A i \in 1..N : out[i] = original[perm[i]]
                /\ \A i, j \in 1..N :
                     i < j => GoesBefore(original[perm[i]], perm[i],
                                         original[perm[j]], perm[j])
           /\ s_pass = 2 => out = s_first

\* Witness of C9: a second application has returned on rows the first one
\* reordered, two of them equal on both keys and different elsewhere.
C9_Witness ==
    /\ s_pc = "returned" /\ s_pass = 2 /\ Len(s_input) = 3
    /\ s_first # s_input
    /\ \E i, j \in 1..3 :
         /\ i < j /\ s_input[i] # s_input[j]
         /\ s_input[i][Col(sorters[1][1])] = s_input[j][Col(sorters[1][1])]
         /\ s_input[i][Col(sorters[2][1])] = s_input[j][Col(sorters[2][1])]

\* ------------------------------------------------------------ the claims
\* C1: the relation compile_clauses returns shows no synthetic binding in
\* its schema.
C1_NoIgnoredInSchema ==
    Returned => \A k \in 1..Len(bindings(ret)) : ~is_ignored_binding(bindings(ret)[k])

\* Witness of C1: a returned tree in which synthetic names were bound, of a
\* list with a constant-constant and a repeated-variable clause.
C1_Witness ==
    /\ Returned /\ id_serial >= 5
    /\ \E k \in 1..Len(LeafBindings(ret)) : is_ignored_binding(LeafBindings(ret)[k])

\* C2: the user-visible variables of the returned schema are exactly the
\* variable keywords of the clauses.
C2_SchemaIsClauseVars ==
    Returned =>
        {b \in SeqToSet(bindings(ret)) : ~is_ignored_binding(b)}
            = VarsOfPrefix(clauses, Len(clauses))

\* Witness of C2: a returned tree of a list with two variables, one of them
\* occurring twice.
C2_Witness ==
    /\ Returned /\ Len(clauses) = 3
    /\ Cardinality(VarsOfPrefix(clauses, 3)) = 2
    /\ VarsOfClause(clauses[1]) \cap VarsOfClause(clauses[2]) # {}
    /\ clauses[3].entity.mv = "Const"

\* The binding of clause k's Triple scan at position pos (1 entity, 2 value)
\* follows the defining-occurrence rule for variable x.
OccurrenceResolved(k, pos, x) ==
    LET t == Triples(ret)[k]
        b == t.bindings[pos]
        earlier == VarsOfPrefix(clauses, k - 1)
    IN IF x \notin earlier
       THEN b = x
       ELSE /\ is_ignored_binding(b)
            /\ \E j \in Joins(ret) :
                 /\ j.right = t
                 /\ \E q \in 1..Len(j.left_keys) :
                        j.left_keys[q] = x /\ j.right_keys[q] = b

\* C3: each user variable is bound by its first occurrence alone; a later
\* occurrence binds a synthetic name paired with the variable in the keys of
\* the Join attaching its scan, and no variable names two columns.
C3_DefiningOccurrence ==
    c_pc \in {"loop", "returned"} =>
        /\ Len(Triples(ret)) = c_i - 1
        /\ \A k \in 1..(c_i - 1) :
             /\ clauses[k].entity.mv = "Variable" =>
                    OccurrenceResolved(k, 1, clauses[k].entity.kw)
             /\ clauses[k].value.mv = "Variable" =>
                    OccurrenceResolved(k, 2, clauses[k].value.kw)
        /\ \A x \in VarsOfPrefix(clauses, c_i - 1) : Count(LeafBindings(ret), x) = 1

\* Witness of C3: a variable-variable clause both of whose variables were
\* bound by earlier clauses has been joined in.
C3_Witness ==
    /\ Returned
    /\ \E j \in Joins(ret) :
         /\ j.right.kind = "Triple"
         /\ Len(j.left_keys) = 2
         /\ \A q \in 1..2 : j.left_keys[q] \in UserVars
         /\ \A q \in 1..2 : is_ignored_binding(j.right.bindings[q])

\* C4: every Triple node of the tree carries the validity of the call.
C4_OneValidity ==
    \A k \in 1..Len(Triples(ret)) : Triples(ret)[k].vld = vld

\* Witness of C4: a returned tree of three scans at the second validity.
C4_Witness == Returned /\ Len(Triples(ret)) = 3 /\ vld = 2

\* C5: a clause whose entity and value are the same variable makes
\* compile_clauses return an error.
C5_SelfReferentialReturnsErr ==
    (c_pc # "loop" /\ c_i <= Len(clauses) /\ SelfReferential(clauses[c_i]))
        => c_result = "Err"

\* C6: one constant-constant clause compiles to the Fixed row joined to the
\* scan on both keys, with no column and one row exactly when the fact exists.
C6_ConstConstIsFactTest ==
    (Returned /\ Len(clauses) = 1
        /\ clauses[1].entity.mv = "Const" /\ clauses[1].value.mv = "Const") =>
        LET c == clauses[1] IN
        /\ bindings(ret) = <<>>
        /\ ret.kind = "Join"
        /\ ret.left.kind = "Fixed"
        /\ ret.left.data = << <<EnId(c.entity.val.n), c.value.val>> >>
        /\ ret.right = TripleRel(c.attr, vld, ret.right.bindings)
        /\ Len(ret.left.bindings) = 2
        /\ ret.left_keys = ret.left.bindings
        /\ ret.right_keys = ret.right.bindings
        /\ Len(Eval(ret)) =
              (IF FactExists(c.attr, c.entity.val, c.value.val, vld) THEN 1 ELSE 0)

\* Witness of C6: the single constant-constant clause on an absent fact whose
\* entity has another value stored.
C6_Witness ==
    /\ Returned /\ Len(clauses) = 1
    /\ clauses[1].entity.mv = "Const" /\ clauses[1].value.mv = "Const"
    /\ ~FactExists(clauses[1].attr, clauses[1].entity.val, clauses[1].value.val, vld)
    /\ Len(Eval(ret)) = 0

\* C10: the synthetic names bound in the tree are as many as the counter
\* says, pairwise distinct, start with '*', and none is a user variable.
C10_SyntheticNamesDistinct ==
    LET IsSyn(b) == is_ignored_binding(b)
        syn == SelectSeq(LeafBindings(ret), IsSyn)
    IN /\ Len(syn) = id_serial
       /\ NoRepeat(syn)
       /\ \A k \in 1..Len(syn) :
            /\ ~StartsWithSigil(syn[k])
            /\ syn[k] \notin VarsOfPrefix(clauses, Len(clauses))
       /\ \A x \in VarsOfPrefix(clauses, Len(clauses)) : StartsWithSigil(x)

\* Witness of C10: names with two digits were allocated.
C10_Witness == Returned /\ id_serial >= 12

\* A Join whose key lists pair a column of its left child with a column of
\* its right child, the right child being a leaf relation.
WellFormedJoin(j) ==
    /\ Len(j.left_keys) = Len(j.right_keys)
    /\ \A q \in 1..Len(j.left_keys) : j.left_keys[q] \in SeqToSet(bindings(j.left))
    /\ \A q \in 1..Len(j.right_keys) : j.right_keys[q] \in SeqToSet(bindings(j.right))
    /\ j.right.kind \in {"Fixed", "Triple"}

\* C11: after every clause each Join of the running tree has key lists of
\* one length, left keys among its left child's bindings, right keys among
\* its right child's, and a Fixed or Triple right child; the running
\* relation is Unit exactly before the first clause, when no variable has
\* been seen, so the scan that replaces a Unit ret has no key pair to drop.
C11_JoinsWellFormed ==
    c_pc \in {"loop", "panic"} =>
        /\ \A j \in Joins(ret) : WellFormedJoin(j)
        /\ is_unit(ret) <=> c_i = 1
        /\ is_unit(ret) => seen_variables = {}
        /\ (c_pc = "loop" /\ c_i <= Len(clauses) /\ is_unit(ret)
               /\ clauses[c_i].entity.mv = "Variable"
               /\ clauses[c_i].value.mv = "Variable"
               /\ ~SelfReferential(clauses[c_i])) =>
              LET c == clauses[c_i]
                  re == ResolveVar(c.entity.kw, seen_variables, id_serial)
                  rv == ResolveVar(c.value.kw, re.seen, re.serial)
              IN re.lk \o rv.lk = <<>> /\ re.rk \o rv.rk = <<>>

\* Witness of C11: three clauses are processed, the first a variable-variable
\* scan that replaced the Unit ret, then a constant cross-joined in and a
\* scan joined on two key pairs.
C11_Witness ==
    /\ c_pc = "loop" /\ Len(clauses) = 3 /\ c_i = 4
    /\ clauses[1].entity.mv = "Variable" /\ clauses[1].value.mv = "Variable"
    /\ \E j \in Joins(ret) : j.right.kind = "Fixed" /\ j.left_keys = <<>>
    /\ \E j \in Joins(ret) : j.right.kind = "Triple" /\ Len(j.left_keys) = 2

====
